---- MODULE Spec2Model ----
(***************************************************************************)
(* River Runner (pygeoapi/process/river_runner.py): execute, _from_fid,    *)
(* _from_bbox, _make_bbox, _make_order, _levelpaths, _compare,             *)
(* _expand_bbox and _group_by as a state machine over one request; and    *)
(* the cache decorator lru_cache_specific_args (pygeoapi/api/cache.py) as  *)
(* a state machine over a sequence of wrapper calls; the paging loop of    *)
(* ESRIServiceProvider (pygeoapi/provider/esri.py) over one query; and     *)
(* get_mapping (pygeoapi/ontology/__init__.py) over one call.              *)
(*                                                                         *)
(* Units: a coordinate is an integer number of 0.025-degree steps, so      *)
(* 180 degrees = 7200, 90 degrees = 3600, e = 0.025 = 1, delta = 0.05 = 2. *)
(* A feature is [id, geometry, properties]; properties is a function from  *)
(* attribute names to values, Python's None being the integer None.        *)
(***************************************************************************)
EXTENDS Integers, Sequences, FiniteSets, TLC

VARIABLES
    table,      \* the features of the dataset the provider reads
    data,       \* the request dictionary handed to execute
    pc,         \* position inside execute and the private functions it calls
    order,      \* the sortby list given to _from_fid
    bbox,       \* _from_bbox: the current box
    attempts,   \* _from_bbox: the attempts counter
    value,      \* _from_bbox: features of the last bbox answer
    fid,        \* the id handed to _from_fid, 0 before there is one
    feature,    \* _from_fid: the feature p.get returned
    bulk,       \* the features of the collection p.query returned to _from_fid
    trim,       \* _from_fid: the trim list
    outputs,    \* execute: the outputs dictionary
    groups,     \* _group_by: the groups list
    err,        \* the exception that left execute, "" when none
    calls,      \* every provider call issued so far, in order
    gin,        \* _group_by called on its own: the feature list given
    gkeys,      \* _group_by called on its own: the groupby list given
    nexp,       \* _expand_bbox called on its own: the number of calls so far
    levelpaths, \* _from_fid: the list _levelpaths returned
    objs,       \* the feature objects p.query returned to _from_fid
    dfeatures,  \* d['features'] of the collection object p.query returned to
                \* _from_fid: references into objs
    request,    \* the request as the caller sent it, before execute changes
                \* data
    internal_lru_cache, \* cache.py: the entries of the lru_cache, the least
                \* recently used first
    key_args,   \* cache.py: the dict key_args
    world,      \* the state the wrapped function reads
    result,     \* cache.py: what the last wrapper call returned
    executed,   \* the arguments of every execution of the wrapped function
                \* during the last wrapper call, in order
    lastcall,   \* the arguments of the last wrapper call
    lastskip,   \* for each key, the result of the last skipped wrapper call,
                \* forgotten when the key is evicted or the cache cleared
    service,    \* esri.py: the remote Feature/Map Service and the filter of
                \* the query
    numFeatures, \* esri.py: self.numFeatures
    qargs,      \* esri.py: offset and limit given to query
    params,     \* esri.py: resultOffset and resultRecordCount of params
    v,          \* esri.py: the list v of _load
    step,       \* esri.py: step of _load
    page,       \* esri.py: the features of the last follow-up response
    fc,         \* esri.py: the collection _load returns
    epc,        \* esri.py: position inside __init__ and _load
    graph,      \* ontology: the parameter concepts of the graph get_graph
                \* returns
    parameter_names, \* ontology: the argument of get_mapping
    response,   \* ontology: the rows of the query the loop has yet to visit
    resp,       \* ontology: the dict resp, one entry per (cid, pname)
    opc         \* ontology: position inside get_mapping

vars == <<table, data, pc, order, bbox, attempts, value, fid, feature, bulk,
          trim, outputs, groups, err, calls, gin, gkeys, nexp, levelpaths, objs,
          dfeatures, request, internal_lru_cache, key_args, world, result,
          executed, lastcall, lastskip, service, numFeatures, qargs,
          params, v, step, page, fc, epc, graph, parameter_names, response,
          resp, opc>>

\* the variables of the cache decorator
cvars == <<internal_lru_cache, key_args, world, result, executed, lastcall,
           lastskip>>

\* the variables of the ESRI provider
evars == <<service, numFeatures, qargs, params, v, step, page, fc, epc>>

\* the variables of the ontology mapping
gvars == <<graph, parameter_names, response, resp, opc>>

\* the variables of the River Runner processor
rvars == <<table, data, pc, order, bbox, attempts, value, fid, feature, bulk,
           trim, outputs, groups, err, calls, gin, gkeys, nexp, levelpaths,
           objs, dfeatures, request>>

----------------------------------------------------------------------------
(* Bounds of the model.                                                    *)

\* largest number of features in the provider's dataset
MaxTable == 6
\* longest feature list p.query(bbox=...) answers with
MaxCand == 2
\* longest feature list handed to _group_by when it is run on its own
MaxGroupLen == 3
\* largest sequence number (hydroseq) of the networks of SpecNet
MaxSeq == 5
\* longest candidate list handed to _compare when it is run on its own
MaxCandLen == 4
\* longest down_levelpaths chain handed to _levelpaths when it is run on its
\* own
MaxChain == 3
\* the maxsize given to lru_cache_specific_args
MaxSize == 1
\* number of distinct cache keys the wrapper is called with
MaxKeys == 2
\* number of times the state the wrapped function reads changes
MaxWorld == 1
\* number of successive _expand_bbox calls when it is run on its own
MaxExpand == 3
\* largest e handed to _expand_bbox when it is run on its own
MaxDelta == 2

----------------------------------------------------------------------------
(* The cache decorator while no decorated function is called.              *)

CacheIdle ==
    /\ internal_lru_cache = <<>>
    /\ key_args = <<>>
    /\ world = 0
    /\ result = <<>>
    /\ executed = <<>>
    /\ lastcall = <<>>
    /\ lastskip = <<>>

(* The ESRI provider before it is constructed.                             *)

EsriIdle ==
    /\ service = <<>>
    /\ numFeatures = 0
    /\ qargs = <<>>
    /\ params = <<>>
    /\ v = <<>>
    /\ step = 0
    /\ page = <<>>
    /\ fc = <<>>
    /\ epc = "idle"

(* The ontology module while get_mapping is not called.                    *)

OntologyIdle ==
    /\ graph = {}
    /\ parameter_names = <<>>
    /\ response = {}
    /\ resp = {}
    /\ opc = "idle"

----------------------------------------------------------------------------
(* Python values.                                                          *)

None == -1

Range(s) == {s[i] : i \in 1..Len(s)}

Min2(a, b) == IF b < a THEN b ELSE a

Max2(a, b) == IF b > a THEN b ELSE a

\* a token of the comma-separated down_levelpaths string: a number written
\* with one decimal (tenths), or text float() rejects
Tok(t) == [ok |-> TRUE, finite |-> TRUE, tenths |-> t]

BadTok == [ok |-> FALSE, finite |-> TRUE, tenths |-> 0]

\* 'inf': float() accepts it and int() raises OverflowError on it
InfTok == [ok |-> TRUE, finite |-> FALSE, tenths |-> 0]

Feat(id, lp, hs, dlp, dhs, chain, name) ==
    [id |-> id,
     geometry |-> [type |-> "LineString", coordinates |-> <<id>>],
     properties |-> [levelpathi |-> lp, hydroseq |-> hs, dnlevelpat |-> dlp,
                     dnhydroseq |-> dhs, down_levelpaths |-> chain,
                     nameid |-> name]]

\* The network dataset behind the provider: the six segments of the
\* scenario (paths 10 and 20) and one segment of a third path 30 that, like
\* path 10, hands off to path 20.
Seg1 == Feat(1, 10, 150, 10, 100, <<Tok(200)>>, 7)
Seg2 == Feat(2, 10, 100, 10, 80, <<Tok(200)>>, 7)
Seg3 == Feat(3, 10, 80, 10, 60, <<Tok(200)>>, None)
Seg4 == Feat(4, 10, 60, 20, 500, <<Tok(200)>>, None)
Seg5 == Feat(5, 20, 500, 0, 0, <<BadTok>>, 8)
Seg6 == Feat(6, 20, 600, 20, 500, <<BadTok>>, 8)
Seg7 == Feat(7, 30, 400, 20, 600, <<Tok(100), Tok(205)>>, None)

Dataset == {Seg1, Seg2, Seg3, Seg4, Seg5, Seg6, Seg7}

----------------------------------------------------------------------------
(* _levelpaths (lines 399-414).                                            *)

\* int(float(i)): the float written with one decimal, truncated toward zero
IntOfFloat(tenths) ==
    IF tenths >= 0 THEN tenths \div 10 ELSE -((-tenths) \div 10)

\* str(n) of an integer n: the decimal string, stood for by n itself (str is
\* one-to-one on integers, and the keys are only ever compared for equality)
StrOfInt(n) == n

RECURSIVE LevelpathsLoop(_)
LevelpathsLoop(toks) ==
    IF toks = <<>> THEN <<>>
    ELSE (IF Head(toks).ok
          THEN <<StrOfInt(IntOfFloat(Head(toks).tenths))>>
          ELSE <<>>) \o LevelpathsLoop(Tail(toks))

\* the tuple iterated over: the feature's own levelpathi (a number), then the
\* pieces of down_levelpaths.split(',')
LevelpathsTuple(mh) ==
    <<Tok(10 * mh.properties.levelpathi)>> \o mh.properties.down_levelpaths

\* the list returned when no entry raises
Levelpaths(mh) == LevelpathsLoop(LevelpathsTuple(mh))

\* line 411 raises an exception the except clause does not catch
LevelpathsRaises(mh) ==
    \E i \in 1..Len(LevelpathsTuple(mh)) :
        LevelpathsTuple(mh)[i].ok /\ ~LevelpathsTuple(mh)[i].finite

----------------------------------------------------------------------------
(* _from_fid (lines 288-332).                                              *)

\* the keys of a dict built from a list, in insertion order
RECURSIVE DictKeys(_)
DictKeys(s) ==
    IF s = <<>> THEN <<>>
    ELSE LET rest == DictKeys(SubSeq(s, 1, Len(s) - 1))
             last == s[Len(s)]
         IN IF last \in Range(rest) THEN rest ELSE Append(rest, last)

\* mutant of MinsReplaces: max taken for min
MinsReplacesMax(prev, hs) == Max2(prev, hs) # prev

\* min(prev, f[P]['hydroseq']) != prev
MinsReplaces(prev, hs) == Min2(prev, hs) # prev

\* lines 311-318: mins[level] is <<>> for the empty dict {} and <<f>> for a
\* feature f
RECURSIVE FindMins(_, _, _)
FindMins(feats, i, mins) ==
    IF i > Len(feats) THEN mins
    ELSE LET f == feats[i]
             key == StrOfInt(f.properties.levelpathi)
             prev == IF mins[key] = <<>> THEN None
                     ELSE mins[key][1].properties.hydroseq
         IN IF prev = None \/ MinsReplaces(prev, f.properties.hydroseq)
            THEN FindMins(feats, i + 1, [mins EXCEPT ![key] = <<f>>])
            ELSE FindMins(feats, i + 1, mins)

Mins(lpaths, feats) ==
    FindMins(feats, 1, [level \in Range(lpaths) |-> <<>>])

\* lines 320-322, when every value of mins is a feature
MakeTrim(seed, lpaths, mins) ==
    LET keys == DictKeys(lpaths)
    IN <<<<seed.properties.levelpathi, seed.properties.hydroseq>>>>
       \o [k \in 1..Len(keys) |->
             <<mins[keys[k]][1].properties.dnlevelpat,
               mins[keys[k]][1].properties.dnhydroseq>>]

\* mutant of TrimMatch: < for <=
TrimMatchStrict(f, t) ==
    f.properties.levelpathi = t[1] /\ f.properties.hydroseq < t[2]

\* lines 328-329
TrimMatch(f, t) ==
    f.properties.levelpathi = t[1] /\ f.properties.hydroseq <= t[2]

\* mutant of Appended: the feature is cut to the threshold it was kept for
AppendedClamped(f, t) == [f EXCEPT !.properties.hydroseq = t[2]]

\* line 330: what outm.append receives
Appended(f, t) == f

\* lines 327-330: the inner loop over trim for one feature
RECURSIVE TrimLoop(_, _)
TrimLoop(f, ts) ==
    IF ts = <<>> THEN <<>>
    ELSE (IF TrimMatch(f, Head(ts)) THEN <<Appended(f, Head(ts))>> ELSE <<>>)
         \o TrimLoop(f, Tail(ts))

\* lines 325-330: the outer loop over d['features']
RECURSIVE KeepMainstem(_, _)
KeepMainstem(feats, ts) ==
    IF feats = <<>> THEN <<>>
    ELSE TrimLoop(Head(feats), ts) \o KeepMainstem(Tail(feats), ts)

\* lines 325-331: outm holds references to the feature objects of
\* d['features']; the result lists, for each element of outm, the position its
\* object had in d['features']
KeptRefs(feats, ts) ==
    LET tagged == [i \in 1..Len(feats) |->
                     [ref |-> i, properties |-> feats[i].properties]]
        kept == KeepMainstem(tagged, ts)
    IN [k \in 1..Len(kept) |-> kept[k].ref]

----------------------------------------------------------------------------
(* _expand_bbox (lines 432-447).                                           *)

LonBound == 7200

LatBound == 3600

DefaultE == 1

\* mutant of Wrap: no wraparound
WrapNone(c, b) == c

\* line 442: (c + b) % (b * 2) - b; Python's % takes the sign of the divisor
Wrap(c, b) == ((c + b) % (b * 2)) - b

\* line 442, dir = min and dir = max over the two coordinates of one axis
BoundMin(c1, c2, b) == Min2(Wrap(c1, b), Wrap(c2, b))

BoundMax(c1, c2, b) == Max2(Wrap(c1, b), Wrap(c2, b))

\* lines 444-445
Shifted(box, e) ==
    [i \in 1..Len(box) |-> IF i - 1 < 2 THEN box[i] + e ELSE box[i] - e]

ExpandBbox(box, e) ==
    LET b == Shifted(box, e)
    IN <<BoundMin(b[1], b[3], LonBound), BoundMin(b[2], b[4], LatBound),
         BoundMax(b[1], b[3], LonBound), BoundMax(b[2], b[4], LatBound)>>

----------------------------------------------------------------------------
(* _make_bbox (lines 360-380) and _make_order (lines 382-397). A request   *)
(* field that is absent is <<>> (bbox, latlng, groupby), None (lat, lng),  *)
(* 0 (id) or "absent" (sorted, sortby).                                    *)

\* the values are lists of numbers, the form of PROCESS_DEF's example; for a
\* string, lines 368-372 first split it into such a list
\* lines 374-379
PickedBbox(dat) ==
    LET picked == IF dat.bbox # <<>> THEN dat.bbox
                  ELSE IF dat.latlng # <<>> THEN dat.latlng
                  ELSE <<dat.lng, dat.lat>>
    IN IF Len(picked) = 2 THEN picked \o picked ELSE picked

\* float(b) of line 444 raises TypeError on None
MakeBboxRaises(dat) == None \in Range(PickedBbox(dat))

MakeBbox(dat) == ExpandBbox(PickedBbox(dat), DefaultE)

\* mutant of OrderKey: the two signs exchanged
OrderKeySwapped(o) == IF o = "downstream" THEN "+" ELSE "-"

\* keys = {'downstream': '-', 'upstream': '+'}
OrderKey(o) == IF o = "downstream" THEN "-" ELSE "+"

\* line 390
SortedOrDefault(dat) ==
    IF dat.sorted = "absent" THEN "downstream" ELSE dat.sorted

\* line 391
OrderWanted(o) == o # "" /\ o \notin {"unsorted", "unset"}

\* keys[order] of line 394 raises KeyError
MakeOrderRaises(dat) ==
    /\ OrderWanted(SortedOrDefault(dat))
    /\ SortedOrDefault(dat) \notin {"downstream", "upstream"}

\* the list returned when line 394 does not raise
MakeOrder(dat) ==
    LET o == SortedOrDefault(dat)
        sortprop == IF dat.sortby = "absent" THEN "hydroseq" ELSE dat.sortby
    IN IF OrderWanted(o)
       THEN <<[property |-> sortprop, order |-> OrderKey(o)]>>
       ELSE <<>>

----------------------------------------------------------------------------
(* _compare (lines 416-430) with dir = min.                                *)

\* mutant of CompareReplaces: an equal value replaces too
CompareReplacesLe(fv, vv) == fv <= vv

\* line 428: dir(f[P][prop], val[P][prop]) != val[P][prop]
CompareReplaces(fv, vv) == Min2(fv, vv) # vv

RECURSIVE CompareLoop(_, _, _, _)
CompareLoop(feats, prop, i, val) ==
    IF i > Len(feats) THEN val
    ELSE CompareLoop(feats, prop, i + 1,
            IF CompareReplaces(feats[i].properties[prop], val.properties[prop])
            THEN feats[i] ELSE val)

Compare(feats, prop) == CompareLoop(feats, prop, 1, feats[1])

----------------------------------------------------------------------------
(* _group_by (lines 449-497).                                              *)

\* mutant of GroupSame: the comparison negated
GroupSameInverted(f, prev, groupby) ==
    \A k \in 1..Len(groupby) :
        f.properties[groupby[k]] # prev.properties[groupby[k]]

\* lines 465-471: every zipped pair equal
GroupSame(f, prev, groupby) ==
    \A k \in 1..Len(groupby) :
        f.properties[groupby[k]] = prev.properties[groupby[k]]

\* lines 464-474; i counts from 0 as enumerate does. The result names the
\* exception raised, "" when the scan ends normally.
RECURSIVE ScanGroups(_, _, _, _, _)
ScanGroups(feats, groupby, i, prev, grp) ==
    IF i >= Len(feats) THEN [err |-> "", groups |-> grp]
    ELSE LET f == feats[i + 1]
         IN IF \E k \in 1..Len(groupby) :
                   groupby[k] \notin DOMAIN f.properties
            THEN [err |-> "KeyError", groups |-> grp]
            ELSE IF GroupSame(f, prev, groupby)
            THEN IF grp = <<>>
                 THEN [err |-> "IndexError", groups |-> grp]
                 ELSE ScanGroups(feats, groupby, i + 1, f,
                         [grp EXCEPT ![Len(grp)].end = i + 1])
            ELSE ScanGroups(feats, groupby, i + 1, f,
                    Append(grp, [start |-> i, end |-> i + 1]))

\* line 463
FirstPrev(groupby) ==
    [properties |-> [gb \in Range(groupby) |-> None]]

\* mutant of Merged: no attribute is popped and the geometry holds the last
\* member's line only
MergedLastOnly(feats, val, groupby) ==
    [id |-> feats[val.end].id,
     geometry |-> [type |-> "MultiLineString",
                   coordinates |-> <<feats[val.end].geometry.coordinates>>],
     properties |-> feats[val.end].properties]

\* lines 479-494: the merged feature of one group
Merged(feats, val, groupby) ==
    LET geo == [k \in 1..(val.end - val.start) |->
                  feats[val.start + k].geometry.coordinates]
        feat == feats[val.end]
    IN [id |-> feat.id,
        geometry |-> [type |-> "MultiLineString", coordinates |-> geo],
        properties |-> [k \in DOMAIN feat.properties \cap Range(groupby)
                           |-> feat.properties[k]]]

\* lines 477-496
OutFeatures(feats, grp, groupby) ==
    [g \in 1..Len(grp) |-> Merged(feats, grp[g], groupby)]

\* groupby is the list of names, as line 459 leaves it.
\* lines 458-497 for a feature list: the exception raised ("" when none), the
\* groups list as far as it got, and the features of the returned collection
GroupBy(feats, groupby) ==
    LET scan == ScanGroups(feats, groupby, 0, FirstPrev(groupby), <<>>)
    IN [err |-> scan.err, groups |-> scan.groups,
        features |-> IF scan.err = "" THEN OutFeatures(feats, scan.groups, groupby)
                     ELSE <<>>]

----------------------------------------------------------------------------
(* The provider (load_plugin('provider', PROVIDER)): a read-only dataset.  *)

RECURSIVE Perms(_)
Perms(S) ==
    IF S = {} THEN {<<>>}
    ELSE UNION {{<<x>> \o p : p \in Perms(S \ {x})} : x \in S}

\* d is in the order sortby asks for; without sortby any order is possible
SortedBy(d, sortby) ==
    \/ sortby = <<>>
    \/ \A i \in 1..(Len(d) - 1) :
          LET a == d[i].properties[sortby[1].property]
              b == d[i + 1].properties[sortby[1].property]
          IN IF sortby[1].order = "-" THEN a >= b ELSE a <= b

\* p.query(properties=[('levelpathi', i) ...], sortby=order, limit=10000,
\* comp='OR'): every feature on one of the paths, in the order asked for
QueryProperties(lpaths, sortby) ==
    {d \in Perms({f \in table :
                    StrOfInt(f.properties.levelpathi) \in Range(lpaths)}) :
        SortedBy(d, sortby)}

\* p.query(bbox=bbox): the features the box meets, which the model leaves
\* open: any features of the dataset, in any order
QueryBbox ==
    UNION {Perms(S) : S \in {T \in SUBSET table : Cardinality(T) <= MaxCand}}

\* one entry of the log of provider calls
Call(kind, box, sortby, n) ==
    [kind |-> kind, box |-> box, sortby |-> sortby, n |-> n]

----------------------------------------------------------------------------
(* Requests.                                                               *)

Req(id, bb, latlng, lat, lng, sorted, sortby, groupby) ==
    [id |-> id, bbox |-> bb, latlng |-> latlng, lat |-> lat, lng |-> lng,
     sorted |-> sorted, sortby |-> sortby, groupby |-> groupby]

GroupByLists ==
    {<<>>, <<"levelpathi">>, <<"nameid">>, <<"nameid", "levelpathi">>}

\* requests naming a feature id (9 is the id of no feature)
IdRequests ==
    {Req(id, <<>>, <<>>, None, None, sorted, "absent", groupby) :
        id \in {1, 2, 3, 4, 5, 6, 7, 9},
        sorted \in {"absent", "downstream", "upstream", "unset"},
        groupby \in GroupByLists}

\* the example box of PROCESS_DEF (-86.2, 39.7, -86.15, 39.75), a box half a
\* degree wide, and a box next to the antimeridian
RequestBoxes ==
    {<<-3448, 1588, -3446, 1590>>, <<-3460, 1580, -3440, 1600>>,
     <<7197, 1588, 7199, 1590>>}

\* requests naming a place: bbox, latlng = (lat, lng), or lat and lng; and
\* the request naming nothing
PlaceRequests ==
    {Req(0, bb, <<>>, None, None, "absent", "absent", groupby) :
        bb \in RequestBoxes, groupby \in {<<>>, <<"levelpathi">>}}
    \cup {Req(0, <<>>, <<1588, -3448>>, None, None, "absent", "absent", <<>>),
          Req(0, <<>>, <<>>, 1588, -3448, "absent", "absent", <<>>),
          Req(0, <<>>, <<>>, None, None, "absent", "absent", <<>>)}

\* requests naming a start in two ways (an id and a box, a box and a
\* coordinate pair), and a request with a latitude and no longitude
MixedRequests ==
    {Req(2, <<-3448, 1588, -3446, 1590>>, <<>>, None, None,
         "absent", "absent", <<>>),
     Req(0, <<-3448, 1588, -3446, 1590>>, <<1588, -3448>>, None, None,
         "absent", "absent", <<>>),
     Req(0, <<>>, <<>>, 1588, None, "absent", "absent", <<>>)}

\* requests with a sort property of their own, with a sort direction
\* _make_order does not know, and with a groupby name no feature carries
SortRequests ==
    {Req(id, <<>>, <<>>, None, None, sorted, "levelpathi", groupby) :
        id \in {2, 7}, sorted \in {"upstream", "unset"},
        groupby \in {<<>>, <<"levelpathi">>}}
    \cup {Req(2, <<>>, <<>>, None, None, "sideways", "absent", <<>>),
          Req(2, <<>>, <<>>, None, None, "absent", "absent", <<"streamlev">>),
          Req(2, <<>>, <<>>, None, None, "absent", "absent",
              <<"levelpathi", "streamlev">>)}

\* requests naming a place and a sort direction other than the default
OrderedPlaceRequests ==
    {Req(0, <<-3448, 1588, -3446, 1590>>, <<>>, None, None, sorted, "absent",
         <<>>) : sorted \in {"upstream", "unset"}}
    \cup {Req(0, <<>>, <<1588, -3448>>, None, None, "upstream", "absent",
               <<>>)}

Requests ==
    IdRequests \cup PlaceRequests \cup MixedRequests \cup SortRequests
      \cup OrderedPlaceRequests

\* Python truthiness of a number or None
Truthy(x) == x # None /\ x # 0

\* the request the nested HTTP call of line 280 makes: params={'id': f['id']}
NestedData(id) ==
    Req(id, <<>>, <<>>, None, None, "absent", "absent", <<>>)

----------------------------------------------------------------------------
(* execute (lines 239-286) and the functions it calls.                     *)

MaxAttempts == 3

Delta == 2

FeatureCollection(feats) == [type |-> "FeatureCollection", features |-> feats]

\* r.json().get('value') of an error response, and Python's None as a value
NoValue == [type |-> "None", features |-> <<>>]

\* the request came by place: the id was found by _from_bbox and the trace
\* runs in the nested request of lines 276-281
ViaHttp == calls # <<>> /\ calls[1].kind = "bbox"

\* the order _from_fid receives
FidOrder == IF ViaHttp THEN MakeOrder(NestedData(fid)) ELSE order

Init ==
    /\ table \in {T \in SUBSET Dataset : Cardinality(T) <= MaxTable}
    /\ data \in Requests
    /\ pc = "start"
    /\ order = <<>>
    /\ bbox = <<>>
    /\ attempts = 0
    /\ value = <<>>
    /\ fid = 0
    /\ feature = <<>>
    /\ bulk = <<>>
    /\ trim = <<>>
    /\ outputs = [id |-> "path", code |-> "success",
                  value |-> FeatureCollection(<<>>)]
    /\ groups = <<>>
    /\ err = ""
    /\ calls = <<>>
    /\ gin = <<>>
    /\ gkeys = <<>>
    /\ nexp = 0
    /\ levelpaths = <<>>
    /\ objs = <<>>
    /\ dfeatures = <<>>
    /\ request = data
    /\ CacheIdle
    /\ EsriIdle
    /\ OntologyIdle

\* mutant of Forced: the direction is left as the caller gave it
ForcedSortbyOnly(dat) ==
    IF dat.groupby # <<>> THEN [dat EXCEPT !.sortby = "hydroseq"] ELSE dat

\* lines 257-260
Forced(dat) ==
    IF dat.groupby # <<>>
    THEN [dat EXCEPT !.sortby = "hydroseq", !.sorted = "downstream"]
    ELSE dat

\* lines 257-271: groupby forces the order; dispatch on the location form
ExecuteStart ==
    /\ pc = "start"
    /\ LET dat == Forced(data)
       IN IF MakeOrderRaises(dat)
          THEN /\ err' = "KeyError"
               /\ pc' = "raised"
               /\ data' = dat
               /\ UNCHANGED <<order, bbox, fid>>
          ELSE
          /\ order' = MakeOrder(dat)
          /\ IF dat.id # 0
             THEN /\ data' = [dat EXCEPT !.id = 0]
                  /\ fid' = dat.id
                  /\ pc' = "fid_get"
                  /\ UNCHANGED <<bbox, err>>
             ELSE IF dat.bbox = <<>> /\ dat.latlng = <<>>
                     /\ (~Truthy(dat.lat) /\ ~Truthy(dat.lng))
             THEN /\ err' = "ProcessorExecuteError"
                  /\ pc' = "raised"
                  /\ data' = dat
                  /\ UNCHANGED <<bbox, fid>>
             ELSE IF MakeBboxRaises(dat)
             THEN /\ err' = "TypeError"
                  /\ pc' = "raised"
                  /\ data' = dat
                  /\ UNCHANGED <<bbox, fid>>
             ELSE /\ bbox' = MakeBbox(dat)
                  /\ pc' = "bbox_query"
                  /\ data' = dat
                  /\ UNCHANGED <<fid, err>>
    /\ UNCHANGED <<cvars, evars, gvars, table, request, levelpaths, objs, dfeatures,
                   attempts, value, feature, bulk, trim, outputs,
                   groups, calls, gin, gkeys, nexp>>

\* lines 344-347
FromBboxQuery ==
    /\ pc = "bbox_query"
    /\ \E ans \in QueryBbox :
          /\ value' = ans
          /\ calls' = Append(calls, Call("bbox", bbox, <<>>, Len(ans)))
    /\ attempts' = 1
    /\ pc' = "bbox_loop"
    /\ UNCHANGED <<cvars, evars, gvars, table, request, levelpaths, objs, dfeatures,
                   data, order, bbox, fid, feature, bulk, trim,
                   outputs, groups, err, gin, gkeys, nexp>>

\* mutant of RetryGuard: <= for <
RetryGuardLe(val, att) == Len(val) < 1 /\ att <= MaxAttempts

\* line 348
RetryGuard(val, att) == Len(val) < 1 /\ att < MaxAttempts

\* lines 348-352
FromBboxExpand ==
    /\ pc = "bbox_loop"
    /\ RetryGuard(value, attempts)
    /\ bbox' = ExpandBbox(bbox, Delta)
    /\ \E ans \in QueryBbox :
          /\ value' = ans
          /\ calls' = Append(calls, Call("bbox", bbox', <<>>, Len(ans)))
    /\ attempts' = attempts + 1
    /\ UNCHANGED <<cvars, evars, gvars, table, request, levelpaths, objs, dfeatures,
                   data, pc, order, fid, feature, bulk, trim,
                   outputs, groups, err, gin, gkeys, nexp>>

\* mutant of NotFound: the code is left as it was
NotFoundSuccess(out) == out

\* lines 272-274: what execute returns when _from_bbox returned nothing
NotFound(out) == [out EXCEPT !.code = "fail"]

\* lines 354-356, then lines 272-274 of execute
FromBboxNone ==
    /\ pc = "bbox_loop"
    /\ ~RetryGuard(value, attempts)
    /\ Len(value) < 1
    /\ outputs' = NotFound(outputs)
    /\ pc' = "done"
    /\ UNCHANGED <<cvars, evars, gvars, table, request, levelpaths, objs, dfeatures,
                   data, order, bbox, attempts, value, fid, feature,
                   bulk, trim, groups, err, calls, gin, gkeys, nexp>>

\* line 358, then lines 276-280 of execute: the request for the id found
FromBboxFound ==
    /\ pc = "bbox_loop"
    /\ ~RetryGuard(value, attempts)
    /\ ~(Len(value) < 1)
    /\ fid' = Compare(value, "hydroseq").id
    /\ value' = <<>>
    /\ pc' = "fid_get"
    /\ UNCHANGED <<cvars, evars, gvars, table, request, levelpaths, objs, dfeatures,
                   data, order, bbox, attempts, feature, bulk, trim,
                   outputs, groups, err, calls, gin, gkeys, nexp>>

\* an exception inside _from_fid: it leaves execute, or, in the nested
\* request, the response carries no value (line 281)
FidRaises(kind) ==
    IF ViaHttp
    THEN /\ outputs' = [outputs EXCEPT !.value = NoValue]
         /\ pc' = "group"
         /\ err' = err
    ELSE /\ err' = kind
         /\ pc' = "raised"
         /\ outputs' = outputs

\* lines 297-298
FromFidGet ==
    /\ pc = "fid_get"
    /\ calls' = Append(calls, Call("get", <<>>, <<>>,
                         Cardinality({f \in table : f.id = fid})))
    /\ IF \E f \in table : f.id = fid
       THEN /\ feature' = CHOOSE f \in table : f.id = fid
            /\ pc' = "fid_query"
            /\ UNCHANGED <<outputs, err>>
       ELSE /\ FidRaises("ProviderItemNotFoundError")
            /\ feature' = feature
    /\ UNCHANGED <<cvars, evars, gvars, table, request, levelpaths, objs, dfeatures,
                   data, order, bbox, attempts, value, fid, bulk,
                   trim, groups, gin, gkeys, nexp>>

\* lines 301-308
FromFidQuery ==
    /\ pc = "fid_query"
    /\ IF LevelpathsRaises(feature)
       THEN /\ FidRaises("OverflowError")
            /\ UNCHANGED <<levelpaths, bulk, objs, dfeatures, calls>>
       ELSE /\ levelpaths' = Levelpaths(feature)
            /\ \E d \in QueryProperties(levelpaths', FidOrder) :
                  /\ bulk' = d
                  /\ objs' = d
                  /\ dfeatures' = [i \in 1..Len(d) |-> i]
                  /\ calls' = Append(calls,
                                     Call("bulk", <<>>, FidOrder, Len(d)))
            /\ pc' = "fid_trim"
            /\ UNCHANGED <<outputs, err>>
    /\ UNCHANGED <<cvars, evars, gvars, table, request, data, order, bbox, attempts, value, fid,
                   feature,
                   trim, groups, gin, gkeys, nexp>>

\* lines 310-332, and the assignment to outputs['value'] in execute
FromFidTrim ==
    /\ pc = "fid_trim"
    /\ LET mins == Mins(levelpaths, bulk)
       IN IF \E level \in Range(levelpaths) : mins[level] = <<>>
          THEN /\ FidRaises("KeyError")
               /\ UNCHANGED <<trim, dfeatures>>
          ELSE /\ trim' = MakeTrim(feature, levelpaths, mins)
               /\ dfeatures' = KeptRefs(bulk, trim')
               /\ outputs' = [outputs EXCEPT !.value =
                                FeatureCollection(KeepMainstem(bulk, trim'))]
               /\ pc' = "group"
               /\ err' = err
    /\ UNCHANGED <<cvars, evars, gvars, table, request, levelpaths, objs, data, order, bbox,
                   attempts,
                   value, fid, feature, bulk, groups, calls, gin, gkeys, nexp>>

\* lines 485-496 when fc is the collection object _from_fid returned: the
\* last member of every group is rewritten in place; res is what GroupBy
\* computed for the features refs points to
MergedInPlace(objects, refs, res) ==
    [r \in DOMAIN objects |->
        IF \E g \in 1..Len(res.groups) : refs[res.groups[g].end] = r
        THEN res.features[CHOOSE g \in 1..Len(res.groups) :
                             refs[res.groups[g].end] = r]
        ELSE objects[r]]

\* lines 283-284 with a groupby. In the nested request of lines 276-281 the
\* collection handed to _group_by is the parsed response, not the object the
\* provider returned.
ExecuteGroupBy ==
    /\ pc = "group"
    /\ data.groupby # <<>>
    /\ IF outputs.value = NoValue
       THEN /\ err' = "TypeError"
            /\ pc' = "raised"
            /\ UNCHANGED <<outputs, groups, objs, dfeatures>>
       ELSE LET res == GroupBy(outputs.value.features, data.groupby)
            IN /\ groups' = res.groups
               /\ err' = res.err
               /\ IF res.err = ""
                  THEN /\ outputs' = [outputs EXCEPT !.value =
                                        FeatureCollection(res.features)]
                       /\ pc' = "done"
                  ELSE /\ outputs' = outputs
                       /\ pc' = "raised"
               /\ IF res.err = "" /\ ~ViaHttp
                  THEN /\ objs' = MergedInPlace(objs, dfeatures, res)
                       /\ dfeatures' = [g \in 1..Len(res.groups) |->
                                          dfeatures[res.groups[g].end]]
                  ELSE UNCHANGED <<objs, dfeatures>>
    /\ UNCHANGED <<cvars, evars, gvars, table, request, levelpaths, data, order, bbox, attempts,
                   value,
                   fid, feature, bulk, trim, calls, gin, gkeys, nexp>>

\* lines 283-286 without a groupby
ExecuteReturn ==
    /\ pc = "group"
    /\ data.groupby = <<>>
    /\ pc' = "done"
    /\ UNCHANGED <<cvars, evars, gvars, table, request, levelpaths, objs, dfeatures,
                   data, order, bbox, attempts, value, fid, feature,
                   bulk, trim, outputs, groups, err, calls, gin, gkeys, nexp>>

Next ==
    \/ ExecuteStart
    \/ FromBboxQuery
    \/ FromBboxExpand
    \/ FromBboxNone
    \/ FromBboxFound
    \/ FromFidGet
    \/ FromFidQuery
    \/ FromFidTrim
    \/ ExecuteGroupBy
    \/ ExecuteReturn

Spec == Init /\ [][Next]_vars

----------------------------------------------------------------------------
(* _group_by called on its own (lines 449-497), for any feature list and   *)
(* any groupby list.                                                       *)

\* a feature list of length n: element i has id i, its own line as geometry
\* and the levelpathi and nameid chosen for it
MergeInput(n, lps, names) ==
    [i \in 1..n |-> Feat(i, lps[i], 100 - i, 0, 0, <<>>, names[i])]

MergeInputs ==
    UNION {{MergeInput(n, lps, names) :
               lps \in [1..n -> {10, 20}], names \in [1..n -> {7, None}]} :
           n \in 0..MaxGroupLen}

MergeKeyLists ==
    {<<"levelpathi">>, <<"nameid">>, <<"levelpathi", "nameid">>}

InitGroup ==
    /\ gin \in MergeInputs
    /\ gkeys \in MergeKeyLists
    /\ pc = "group_call"
    /\ table = {}
    /\ data = NestedData(0)
    /\ order = <<>>
    /\ bbox = <<>>
    /\ attempts = 0
    /\ value = <<>>
    /\ fid = 0
    /\ feature = <<>>
    /\ bulk = <<>>
    /\ trim = <<>>
    /\ outputs = [id |-> "path", code |-> "success",
                  value |-> FeatureCollection(<<>>)]
    /\ groups = <<>>
    /\ err = ""
    /\ calls = <<>>
    /\ nexp = 0
    /\ levelpaths = <<>>
    /\ objs = <<>>
    /\ dfeatures = <<>>
    /\ request = data
    /\ CacheIdle
    /\ EsriIdle
    /\ OntologyIdle

GroupByCall ==
    /\ pc = "group_call"
    /\ LET res == GroupBy(gin, gkeys)
       IN /\ groups' = res.groups
          /\ err' = res.err
          /\ outputs' = [outputs EXCEPT !.value = FeatureCollection(res.features)]
          /\ pc' = IF res.err = "" THEN "group_returned" ELSE "group_raised"
    /\ UNCHANGED <<cvars, evars, gvars, table, request, levelpaths, objs, dfeatures,
                   data, order, bbox, attempts, value, fid, feature,
                   bulk, trim, calls, gin, gkeys, nexp>>

NextGroup == GroupByCall

SpecGroup == InitGroup /\ [][NextGroup]_vars

----------------------------------------------------------------------------
(* _expand_bbox called on its own (lines 432-447), any number of times,    *)
(* from any box and with any e >= 0.                                       *)

\* four numbers in any order, also beyond 180 and 90 degrees
AnyBoxes ==
    {<<x1, y1, x2, y2>> :
        x1 \in {-7300, -7200, -3448, 7199, 7200},
        x2 \in {-7300, -7200, -3448, 7199, 7200},
        y1 \in {-3600, 1588, 3599, 3700},
        y2 \in {-3600, 1588, 3599, 3700}}

InitBbox ==
    /\ bbox \in AnyBoxes
    /\ nexp = 0
    /\ levelpaths = <<>>
    /\ objs = <<>>
    /\ dfeatures = <<>>
    /\ pc = "expand_call"
    /\ table = {}
    /\ data = NestedData(0)
    /\ order = <<>>
    /\ attempts = 0
    /\ value = <<>>
    /\ fid = 0
    /\ feature = <<>>
    /\ bulk = <<>>
    /\ trim = <<>>
    /\ outputs = [id |-> "path", code |-> "success",
                  value |-> FeatureCollection(<<>>)]
    /\ groups = <<>>
    /\ err = ""
    /\ calls = <<>>
    /\ gin = <<>>
    /\ gkeys = <<>>
    /\ request = data
    /\ CacheIdle
    /\ EsriIdle
    /\ OntologyIdle

ExpandCall ==
    /\ pc = "expand_call"
    /\ nexp < MaxExpand
    /\ \E e \in 0..MaxDelta : bbox' = ExpandBbox(bbox, e)
    /\ nexp' = nexp + 1
    /\ UNCHANGED <<cvars, evars, gvars, table, request, levelpaths, objs, dfeatures,
                   data, pc, order, attempts, value, fid, feature,
                   bulk, trim, outputs, groups, err, calls, gin, gkeys>>

NextBbox == ExpandCall

SpecBbox == InitBbox /\ [][NextBbox]_vars

----------------------------------------------------------------------------
(* execute on networks of two paths, path 10 flowing into path 20, with    *)
(* any assignment of distinct sequence numbers to their segments.          *)

\* the elements of a set of numbers, largest first
RECURSIVE Descending(_)
Descending(S) ==
    IF S = {} THEN <<>>
    ELSE LET m == CHOOSE x \in S : \A y \in S : y <= x
         IN <<m>> \o Descending(S \ {m})

\* the segments of one path: hs lists their sequence numbers from the top of
\* the path down, each segment hands off to the next one and the last one to
\* exit
PathSegments(firstid, lp, hs, chain, exit) ==
    {Feat(firstid + k, lp, hs[k],
          IF k < Len(hs) THEN lp ELSE exit[1],
          IF k < Len(hs) THEN hs[k + 1] ELSE exit[2],
          chain, None) : k \in 1..Len(hs)}

\* path 10 (ids 1, 2) ends at the segment of path 20 (ids 3, 4) with
\* sequence number entry
Network(s10, s20, entry) ==
    PathSegments(0, 10, Descending(s10), <<Tok(200)>>, <<20, entry>>)
    \cup PathSegments(2, 20, Descending(s20), <<BadTok>>, <<0, 0>>)

Networks ==
    {Network(s10, s20, entry) :
        <<s10, s20, entry>> \in
            {t \in (SUBSET (1..MaxSeq)) \X (SUBSET (1..MaxSeq))
                       \X (1..MaxSeq) :
                /\ Cardinality(t[1]) \in {1, 2}
                /\ Cardinality(t[2]) \in {1, 2}
                /\ t[1] \cap t[2] = {}
                /\ t[3] \in t[2]}}

\* a trace from a segment of path 10, merged on the path and as it is, and a
\* request by place
NetRequests ==
    {Req(id, <<>>, <<>>, None, None, "absent", "absent", groupby) :
        id \in {1, 2}, groupby \in {<<>>, <<"levelpathi">>}}
    \cup {Req(0, <<-3448, 1588, -3446, 1590>>, <<>>, None, None,
              "absent", "absent", <<"levelpathi">>)}

InitNet ==
    /\ table \in Networks
    /\ data \in NetRequests
    /\ pc = "start"
    /\ order = <<>>
    /\ bbox = <<>>
    /\ attempts = 0
    /\ value = <<>>
    /\ fid = 0
    /\ feature = <<>>
    /\ bulk = <<>>
    /\ trim = <<>>
    /\ outputs = [id |-> "path", code |-> "success",
                  value |-> FeatureCollection(<<>>)]
    /\ groups = <<>>
    /\ err = ""
    /\ calls = <<>>
    /\ gin = <<>>
    /\ gkeys = <<>>
    /\ nexp = 0
    /\ levelpaths = <<>>
    /\ objs = <<>>
    /\ dfeatures = <<>>
    /\ request = data
    /\ CacheIdle
    /\ EsriIdle
    /\ OntologyIdle

SpecNet == InitNet /\ [][Next]_vars

----------------------------------------------------------------------------
(* _compare called on its own (lines 416-430) with prop = 'hydroseq' and   *)
(* dir = min, for any non-empty candidate list.                            *)

\* candidate i has id i and the sequence number chosen for it
Candidates(hs) ==
    [i \in 1..Len(hs) |-> Feat(i, 10, hs[i], 0, 0, <<>>, None)]

CandidateLists ==
    UNION {{Candidates(hs) : hs \in [1..n -> {50, 60, 70}]} :
           n \in 1..MaxCandLen}

InitCompare ==
    /\ value \in CandidateLists
    /\ pc = "compare_call"
    /\ table = {}
    /\ data = NestedData(0)
    /\ order = <<>>
    /\ bbox = <<>>
    /\ attempts = 0
    /\ fid = 0
    /\ feature = <<>>
    /\ bulk = <<>>
    /\ trim = <<>>
    /\ outputs = [id |-> "path", code |-> "success",
                  value |-> FeatureCollection(<<>>)]
    /\ groups = <<>>
    /\ err = ""
    /\ calls = <<>>
    /\ gin = <<>>
    /\ gkeys = <<>>
    /\ nexp = 0
    /\ levelpaths = <<>>
    /\ objs = <<>>
    /\ dfeatures = <<>>
    /\ request = data
    /\ CacheIdle
    /\ EsriIdle
    /\ OntologyIdle

CompareCall ==
    /\ pc = "compare_call"
    /\ feature' = Compare(value, "hydroseq")
    /\ pc' = "compare_returned"
    /\ UNCHANGED <<cvars, evars, gvars, table, request, levelpaths, objs, dfeatures,
                   data, order, bbox, attempts, value, fid, bulk, trim,
                   outputs, groups, err, calls, gin, gkeys, nexp>>

NextCompare == CompareCall

SpecCompare == InitCompare /\ [][NextCompare]_vars

----------------------------------------------------------------------------
(* _levelpaths called on its own (lines 399-414), for any seed.            *)

\* the pieces of a down_levelpaths string: '10.0', '20.0', '20.5', text that
\* is no number, 'inf'
ChainTokens == {Tok(100), Tok(200), Tok(205), BadTok, InfTok}

Chains == UNION {[1..n -> ChainTokens] : n \in 0..MaxChain}

Seeds ==
    {Feat(1, lp, 100, 0, 0, chain, None) : lp \in {10, 20}, chain \in Chains}

InitPaths ==
    /\ feature \in Seeds
    /\ pc = "paths_call"
    /\ table = {}
    /\ data = NestedData(0)
    /\ order = <<>>
    /\ bbox = <<>>
    /\ attempts = 0
    /\ value = <<>>
    /\ fid = 0
    /\ bulk = <<>>
    /\ trim = <<>>
    /\ outputs = [id |-> "path", code |-> "success",
                  value |-> FeatureCollection(<<>>)]
    /\ groups = <<>>
    /\ err = ""
    /\ calls = <<>>
    /\ gin = <<>>
    /\ gkeys = <<>>
    /\ nexp = 0
    /\ levelpaths = <<>>
    /\ objs = <<>>
    /\ dfeatures = <<>>
    /\ request = data
    /\ CacheIdle
    /\ EsriIdle
    /\ OntologyIdle

LevelpathsCall ==
    /\ pc = "paths_call"
    /\ IF LevelpathsRaises(feature)
       THEN /\ err' = "OverflowError"
            /\ pc' = "paths_raised"
            /\ levelpaths' = levelpaths
       ELSE /\ levelpaths' = Levelpaths(feature)
            /\ pc' = "paths_returned"
            /\ err' = err
    /\ UNCHANGED <<cvars, evars, gvars, table, request, objs, dfeatures, data, order, bbox,
                   attempts, value, fid, feature, bulk, trim, outputs, groups,
                   calls, gin, gkeys, nexp>>

NextPaths == LevelpathsCall

SpecPaths == InitPaths /\ [][NextPaths]_vars

----------------------------------------------------------------------------
(* _make_order called on its own (lines 382-397), for any sorted and       *)
(* sortby of the request.                                                  *)

OrderInputs ==
    {Req(0, <<>>, <<>>, None, None, sorted, sortby, groupby) :
        sorted \in {"absent", "downstream", "upstream", "unset", "unsorted",
                    "", "sideways"},
        sortby \in {"absent", "hydroseq", "levelpathi", "nameid", "comid"},
        groupby \in {<<>>, <<"levelpathi">>}}

InitOrder ==
    /\ data \in OrderInputs
    /\ pc = "order_call"
    /\ table = {}
    /\ order = <<>>
    /\ bbox = <<>>
    /\ attempts = 0
    /\ value = <<>>
    /\ fid = 0
    /\ feature = <<>>
    /\ bulk = <<>>
    /\ trim = <<>>
    /\ outputs = [id |-> "path", code |-> "success",
                  value |-> FeatureCollection(<<>>)]
    /\ groups = <<>>
    /\ err = ""
    /\ calls = <<>>
    /\ gin = <<>>
    /\ gkeys = <<>>
    /\ nexp = 0
    /\ levelpaths = <<>>
    /\ objs = <<>>
    /\ dfeatures = <<>>
    /\ request = data
    /\ CacheIdle
    /\ EsriIdle
    /\ OntologyIdle

MakeOrderCall ==
    /\ pc = "order_call"
    /\ IF MakeOrderRaises(data)
       THEN /\ err' = "KeyError"
            /\ pc' = "order_raised"
            /\ order' = order
       ELSE /\ order' = MakeOrder(data)
            /\ pc' = "order_returned"
            /\ err' = err
    /\ UNCHANGED <<cvars, evars, gvars, table, request, levelpaths, objs, dfeatures,
                   data, bbox, attempts, value, fid, feature, bulk, trim,
                   outputs, groups, calls, gin, gkeys, nexp>>

NextOrder == MakeOrderCall

SpecOrder == InitOrder /\ [][NextOrder]_vars

----------------------------------------------------------------------------
(* lru_cache_specific_args (src/pygeoapi/api/cache.py, lines 27-84): the   *)
(* wrapper around a function fn, with a skip_caching_fn.                   *)

\* the River Runner processor while the cache is exercised
RiverIdle ==
    /\ table = {}
    /\ data = NestedData(0)
    /\ pc = "cache"
    /\ order = <<>>
    /\ bbox = <<>>
    /\ attempts = 0
    /\ value = <<>>
    /\ fid = 0
    /\ feature = <<>>
    /\ bulk = <<>>
    /\ trim = <<>>
    /\ outputs = [id |-> "path", code |-> "success",
                  value |-> FeatureCollection(<<>>)]
    /\ groups = <<>>
    /\ err = ""
    /\ calls = <<>>
    /\ gin = <<>>
    /\ gkeys = <<>>
    /\ nexp = 0
    /\ levelpaths = <<>>
    /\ objs = <<>>
    /\ dfeatures = <<>>
    /\ request = data

Keys == 1..MaxKeys

\* a request (args[1]): its Cache-Control header, lower-cased, and whatever
\* else it carries
ApiRequests ==
    [cache_control : {"absent", "no-cache"}, tag : {0, 1}]

\* the arguments of a wrapper call: what cache_keys reads and the request
CallArgs == [key : Keys, request : ApiRequests]

\* cache_keys(*args, **kwargs)
CacheKeys(args) == args.key

\* headers_require_revalidation (lines 11-24)
SkipCachingFn(req) ==
    req.cache_control \in {"no-cache", "no-store", "must-revalidate"}

\* fn(*args, **kwargs): a value that depends on every argument and on the
\* state fn reads
Fn(args, w) == [key |-> args.key, tag |-> args.request.tag, world |-> w]

\* the position of key in the lru_cache, 0 when it holds no entry for it
Position(cache, key) ==
    IF \E i \in 1..Len(cache) : cache[i].key = key
    THEN CHOOSE i \in 1..Len(cache) : cache[i].key = key
    ELSE 0

Without(cache, i) ==
    SubSeq(cache, 1, i - 1) \o SubSeq(cache, i + 1, Len(cache))

\* a cache that runs fn again on a hit and replaces the entry
LruCallRecomputes(cache, key, stored, w) ==
    LET i == Position(cache, key)
        entry == [key |-> key, result |-> Fn(stored, w)]
    IN [result |-> entry.result, miss |-> TRUE,
        evicted |-> IF i = 0 /\ Len(cache) >= MaxSize
                    THEN {cache[1].key} ELSE {},
        cache |-> IF i > 0 THEN Append(Without(cache, i), entry)
                  ELSE IF Len(cache) >= MaxSize
                  THEN Append(Tail(cache), entry)
                  ELSE Append(cache, entry)]

\* internal_lru_cache(key), lines 52-54: a hit returns the entry and makes it
\* the most recently used; a miss runs fn on key_args[key], stores the result
\* and, when the cache is full, evicts the least recently used entry
LruCall(cache, key, stored, w) ==
    LET i == Position(cache, key)
    IN IF i > 0
       THEN [result |-> cache[i].result, miss |-> FALSE, evicted |-> {},
             cache |-> Append(Without(cache, i), cache[i])]
       ELSE LET entry == [key |-> key, result |-> Fn(stored, w)]
            IN IF Len(cache) >= MaxSize
               THEN [result |-> entry.result, miss |-> TRUE,
                     evicted |-> {cache[1].key},
                     cache |-> Append(Tail(cache), entry)]
               ELSE [result |-> entry.result, miss |-> TRUE, evicted |-> {},
                     cache |-> Append(cache, entry)]

InitCache ==
    /\ internal_lru_cache = <<>>
    /\ key_args = [k \in Keys |-> <<>>]
    /\ world = 0
    /\ result = <<>>
    /\ executed = <<>>
    /\ lastcall = <<>>
    /\ lastskip = [k \in Keys |-> <<>>]
    /\ RiverIdle
    /\ EsriIdle
    /\ OntologyIdle

\* lines 58-77; key_args[key] is <<>> while the dict has no such key
Wrapper(args) ==
    LET key == CacheKeys(args)
        ka == IF key_args[key] = <<>>
              THEN [key_args EXCEPT ![key] = <<args>>]
              ELSE key_args
        skip_caching == SkipCachingFn(args.request)
        cached == LruCall(internal_lru_cache, key, ka[key][1], world)
        stored == IF cached.miss THEN <<ka[key][1]>> ELSE <<>>
    IN /\ key_args' = ka
       /\ internal_lru_cache' = cached.cache
       /\ lastcall' = <<args>>
       /\ IF skip_caching
          THEN /\ result' = <<Fn(args, world)>>
               /\ executed' = <<args>> \o stored
          ELSE /\ result' = <<cached.result>>
               /\ executed' = stored
       /\ lastskip' = [k \in Keys |->
                         IF k = key /\ skip_caching THEN result'
                         ELSE IF k \in cached.evicted THEN <<>>
                         ELSE lastskip[k]]
       /\ UNCHANGED <<world, rvars, evars, gvars>>

WrapperCall == \E args \in CallArgs : Wrapper(args)

\* wrapper.cache_clear (line 81)
CacheClear ==
    /\ internal_lru_cache # <<>>
    /\ internal_lru_cache' = <<>>
    /\ lastskip' = [k \in Keys |-> <<>>]
    /\ UNCHANGED <<key_args, world, result, executed, lastcall, rvars,
                   evars, gvars>>

\* what fn reads changes between two calls
WorldChange ==
    /\ world < MaxWorld
    /\ world' = world + 1
    /\ UNCHANGED <<internal_lru_cache, key_args, result, executed, lastcall,
                   lastskip, rvars, evars, gvars>>

NextCache ==
    \/ WrapperCall
    \/ CacheClear
    \/ WorldChange

SpecCache == InitCache /\ [][NextCache]_vars

----------------------------------------------------------------------------
(* Properties of the trace (_from_fid).                                    *)

Ids(feats) == [i \in 1..Len(feats) |-> feats[i].id]

\* _from_fid has run to its last line, returning or raising
TraceEnded == pc \in {"group", "done", "raised"} /\ bulk # <<>>

\* _from_fid returned a collection
Traced == TraceEnded /\ trim # <<>>

\* the features _from_fid returned, while outputs['value'] still holds them
TraceOut == outputs.value.features

AtTraceOut == Traced /\ pc = "group"

\* the member of the bulk result with the least sequence on path p, the
\* first in the provider's order among equals
IsPathMin(i) ==
    \A j \in 1..Len(bulk) :
        bulk[j].properties.levelpathi = bulk[i].properties.levelpathi
        => /\ bulk[j].properties.hydroseq >= bulk[i].properties.hydroseq
           /\ (j < i => bulk[j].properties.hydroseq
                           > bulk[i].properties.hydroseq)

\* T: the seed boundary and the hand-off of every path's least member
BoundarySet ==
    {<<feature.properties.levelpathi, feature.properties.hydroseq>>}
    \cup {<<bulk[i].properties.dnlevelpat, bulk[i].properties.dnhydroseq>> :
             i \in {k \in 1..Len(bulk) : IsPathMin(k)}}

SatisfiesBoundary(f) ==
    \E t \in BoundarySet :
        f.properties.levelpathi = t[1] /\ f.properties.hydroseq <= t[2]

EveryPathHasMember ==
    \A level \in Range(levelpaths) :
        \E i \in 1..Len(bulk) :
            StrOfInt(bulk[i].properties.levelpathi) = level

\* C1. Boundary satisfaction: whenever every path of L has a member in the
\* bulk result, _from_fid returns a collection that holds exactly the
\* segments of the bulk result that have a boundary (pathId, threshold) in T
\* with their pathId and a sequence <= threshold.
C1_BoundarySatisfaction ==
    (TraceEnded /\ EveryPathHasMember) =>
        /\ Traced
        /\ (pc = "group" =>
              Range(TraceOut) = {f \in Range(bulk) : SatisfiesBoundary(f)})

\* a trace that dropped a segment and kept one on a path downstream of the
\* seed's
C1_Witness ==
    /\ AtTraceOut
    /\ \E f \in Range(bulk) : f \notin Range(TraceOut)
    /\ \E f \in Range(TraceOut) :
          f.properties.levelpathi # feature.properties.levelpathi

\* the scenario: seed seg2 {10, 100, chain "20"}, the provider answering
\* seg1..seg6 by descending sequence
Scenario ==
    /\ TraceEnded
    /\ feature = Seg2
    /\ table = {Seg1, Seg2, Seg3, Seg4, Seg5, Seg6}
    /\ Ids(bulk) = <<6, 5, 1, 2, 3, 4>>

\* C2 as amended. In the scenario the trace returns seg5, seg2, seg3, seg4 in
\* that order, the provider's descending-sequence order; seg1 and seg6 are
\* left out.
C2_ScenarioTrace ==
    Scenario => /\ Traced
                /\ (pc = "group" => Ids(TraceOut) = <<5, 2, 3, 4>>)

C2_Witness == Scenario /\ pc = "group" /\ ~ViaHttp

\* C2 as stated: in the scenario the trace returns seg2, seg3, seg4, seg5 in
\* that order.
C2_AsStated ==
    (Scenario /\ pc = "group") => Ids(TraceOut) = <<2, 3, 4, 5>>

\* C3 as stated. Trim idempotence: the filter loop applied with the same
\* trim list to the collection the trace returned gives that collection again.
C3_TrimIdempotent ==
    AtTraceOut => KeepMainstem(TraceOut, trim) = TraceOut

\* C4. Subset: every feature the trace returns is a feature of the bulk
\* result, equal to it in id, geometry and every attribute.
C4_Subset ==
    AtTraceOut =>
        \A i \in 1..Len(TraceOut) : \E j \in 1..Len(bulk) : TraceOut[i] = bulk[j]

\* a trace that returned several features and fewer than it was given
C4_Witness ==
    AtTraceOut /\ Len(TraceOut) >= 2 /\ Len(TraceOut) < Len(bulk)

----------------------------------------------------------------------------
(* Properties of the merge (_group_by).                                    *)

GroupEnded == pc \in {"group_returned", "group_raised"}

\* the number of recorded ranges [start, end) that hold index i
RangesHolding(i) ==
    Cardinality({g \in 1..Len(groups) :
                    groups[g].start <= i /\ i < groups[g].end})

\* C5 as stated. Merge partition: for every feature list and every groupby
\* list _group_by returns at most as many features as it was given, every
\* input index lies in exactly one recorded range, and the features come in
\* the order in which their groups were met.
C5_MergePartition ==
    GroupEnded =>
        /\ pc = "group_returned"
        /\ Len(outputs.value.features) <= Len(gin)
        /\ \A i \in 0..(Len(gin) - 1) : RangesHolding(i) = 1
        /\ Len(outputs.value.features) = Len(groups)
        /\ \A g \in 1..Len(groups) :
              /\ outputs.value.features[g].id = gin[groups[g].end].id
              /\ \A h \in 1..(g - 1) : groups[h].end <= groups[g].start

\* the merged features of the scenario, named by the path they carry and the
\* lines that make up their geometry
GroupOf(f) == <<f.properties.levelpathi, f.geometry.coordinates>>

ScenarioMerge ==
    /\ Scenario
    /\ data.groupby = <<"levelpathi">>
    /\ pc \in {"done", "raised"}

\* C6 as amended. In the scenario, merging the trace's output on pathId
\* gives exactly two groups: [seg5] for pathId 20 first, [seg2, seg3, seg4]
\* for pathId 10 second.
C6_ScenarioMerge ==
    ScenarioMerge =>
        /\ pc = "done"
        /\ groups = <<[start |-> 0, end |-> 1], [start |-> 1, end |-> 4]>>
        /\ Len(outputs.value.features) = 2
        /\ GroupOf(outputs.value.features[1])
              = <<20, <<Seg5.geometry.coordinates>>>>
        /\ GroupOf(outputs.value.features[2])
              = <<10, <<Seg2.geometry.coordinates, Seg3.geometry.coordinates,
                        Seg4.geometry.coordinates>>>>

C6_Witness == ScenarioMerge /\ pc = "done" /\ ~ViaHttp

\* C6 as stated: [seg2, seg3, seg4] for pathId 10 first, [seg5] for pathId 20
\* second.
C6_AsStated ==
    (ScenarioMerge /\ pc = "done") =>
        /\ Len(outputs.value.features) = 2
        /\ GroupOf(outputs.value.features[1])
              = <<10, <<Seg2.geometry.coordinates, Seg3.geometry.coordinates,
                        Seg4.geometry.coordinates>>>>
        /\ GroupOf(outputs.value.features[2])
              = <<20, <<Seg5.geometry.coordinates>>>>

----------------------------------------------------------------------------
(* Properties of the bounding box (_expand_bbox, _make_bbox, _from_bbox).  *)

\* C7. Bbox containment: after any number of _expand_bbox calls, from any
\* box and with any e >= 0, both longitudes are within [-180, 180], both
\* latitudes within [-90, 90], and min <= max on each axis.
C7_BboxContained ==
    nexp >= 1 =>
        /\ -LonBound <= bbox[1] /\ bbox[1] <= bbox[3] /\ bbox[3] <= LonBound
        /\ -LatBound <= bbox[2] /\ bbox[2] <= bbox[4] /\ bbox[4] <= LatBound

\* a box that went around the antimeridian and over the pole
C7_Witness ==
    /\ nexp >= 2
    /\ bbox[1] = -LonBound
    /\ bbox[2] = -LatBound

\* no coordinate of the box is within two steps of delta of a wrap point
FarFromWrap(box) ==
    /\ \A i \in {1, 3} : -LonBound + 2 * Delta < box[i]
                         /\ box[i] < LonBound - 2 * Delta
    /\ \A i \in {2, 4} : -LatBound + 2 * Delta < box[i]
                         /\ box[i] < LatBound - 2 * Delta

\* C8 as stated. Away from the wrap points, the box of every query after the
\* first contains the box of the query before it, each edge lying delta
\* further out.
C8_ExpandsOutward ==
    \A i \in 2..Len(calls) :
        (calls[i].kind = "bbox" /\ FarFromWrap(calls[i - 1].box)) =>
            /\ calls[i].box[1] = calls[i - 1].box[1] - Delta
            /\ calls[i].box[2] = calls[i - 1].box[2] - Delta
            /\ calls[i].box[3] = calls[i - 1].box[3] + Delta
            /\ calls[i].box[4] = calls[i - 1].box[4] + Delta

----------------------------------------------------------------------------
(* Properties of execute as a whole.                                       *)

CallsOf(kind) == {i \in 1..Len(calls) : calls[i].kind = kind}

\* every one of the MaxAttempts bounding-box queries came back empty
SearchExhausted ==
    /\ Cardinality(CallsOf("bbox")) >= MaxAttempts
    /\ \A i \in CallsOf("bbox") : calls[i].n = 0

\* C9. NotFound on exhausted search: when every one of the maxAttempts box
\* queries came back empty, execute hands its caller the failure (code
\* 'fail', an empty collection); no bulk member query and no merge runs.
C9_NotFoundOnExhausted ==
    SearchExhausted =>
        /\ pc \in {"bbox_loop", "done"}
        /\ CallsOf("bulk") = {} /\ CallsOf("get") = {}
        /\ groups = <<>>
        /\ outputs.value = FeatureCollection(<<>>)
        /\ (pc = "done" => outputs.code = "fail" /\ err = "")

C9_Witness ==
    SearchExhausted /\ pc = "done" /\ data.groupby # <<>>

\* C10. Bounded provider I/O: at most maxAttempts box queries, none after a
\* non-empty answer; one bulk member query per trace; no provider call by
\* _group_by (the bulk query is still the last call when execute ends).
C10_BoundedProviderIO ==
    /\ Cardinality(CallsOf("bbox")) <= MaxAttempts
    /\ \A i \in CallsOf("bbox") : \A j \in CallsOf("bbox") :
          calls[i].n > 0 => j <= i
    /\ Cardinality(CallsOf("bulk")) <= 1
    /\ (TraceEnded => Cardinality(CallsOf("bulk")) = 1)
    /\ Cardinality(CallsOf("get")) <= 1
    /\ (TraceEnded => calls[Len(calls)].kind = "bulk")

\* a request by place that needed every attempt, was traced and was merged
C10_Witness ==
    /\ pc = "done"
    /\ err = ""
    /\ Cardinality(CallsOf("bbox")) = MaxAttempts
    /\ Cardinality(CallsOf("bulk")) = 1
    /\ groups # <<>>

----------------------------------------------------------------------------
(* Properties of the request handling of execute.                          *)

\* the number of location forms among {bbox, lat+lng, latlng, id} the
\* request supplies
FormCount ==
    Cardinality({form \in {"id", "bbox", "latlng", "lat+lng"} :
        \/ form = "id" /\ request.id # 0
        \/ form = "bbox" /\ request.bbox # <<>>
        \/ form = "latlng" /\ request.latlng # <<>>
        \/ form = "lat+lng" /\ request.lat # None /\ request.lng # None})

\* C11 as stated. Location-form validation: a request that supplies none of
\* {bbox, lat+lng, latlng, id}, or more than one of them, makes execute fail
\* with the invalid-input error (ProcessorExecuteError), no seed being
\* resolved and no provider call issued.
C11_FormValidation ==
    (FormCount # 1 /\ pc # "start") =>
        /\ pc = "raised"
        /\ err = "ProcessorExecuteError"
        /\ feature = <<>>
        /\ calls = <<>>

\* the sort property _make_order uses for the request
SortProp == IF data.sortby = "absent" THEN "hydroseq" ELSE data.sortby

OrderEnded == pc \in {"order_returned", "order_raised"}

\* C12 as amended. _make_order maps the sort direction as follows for every
\* sort property: downstream, and a direction absent from the request (the
\* default is downstream), give one entry {property, descending}; upstream
\* gives one entry {property, ascending}; unset gives the empty list.
C12_OrderMapping ==
    OrderEnded =>
        /\ data.sorted \in {"downstream", "absent"} =>
              /\ pc = "order_returned"
              /\ order = <<[property |-> SortProp, order |-> "-"]>>
        /\ data.sorted = "upstream" =>
              /\ pc = "order_returned"
              /\ order = <<[property |-> SortProp, order |-> "+"]>>
        /\ data.sorted = "unset" =>
              /\ pc = "order_returned"
              /\ order = <<>>

\* a request without a direction and with a sort property of its own
C12_Witness ==
    /\ pc = "order_returned"
    /\ data.sorted = "absent"
    /\ data.sortby = "levelpathi"
    /\ order # <<>>

\* C12 as stated: downstream gives {property, descending}, upstream gives
\* {property, ascending}, and a direction that is unset or absent gives the
\* empty list.
C12_AsStated ==
    OrderEnded =>
        /\ data.sorted = "downstream" =>
              order = <<[property |-> SortProp, order |-> "-"]>>
        /\ data.sorted = "upstream" =>
              order = <<[property |-> SortProp, order |-> "+"]>>
        /\ data.sorted \in {"unset", "absent"} => order = <<>>

\* the ordering [{hydroseq, descending}]
SequenceDescending == <<[property |-> "hydroseq", order |-> "-"]>>

\* C13. Forced ordering for grouping: whenever the request carries a
\* non-empty groupby, the sortby handed to the bulk member query is exactly
\* [{hydroseq, descending}], whatever sorted and sortby the caller sent.
C13_ForcedOrder ==
    request.groupby # <<>> =>
        \A i \in CallsOf("bulk") : calls[i].sortby = SequenceDescending

\* a request by id for upstream order on a property of its own, with a
\* groupby, whose bulk member query has been issued
C13_Witness ==
    /\ request.groupby # <<>>
    /\ request.sorted = "upstream"
    /\ request.sortby = "levelpathi"
    /\ ~ViaHttp
    /\ CallsOf("bulk") # {}

\* the attribute names of the data source
KnownAttributes == UNION {DOMAIN f.properties : f \in Dataset}

\* C14 as stated. Merge skip: when a name of the groupby is not an attribute
\* of the data source, _group_by groups nothing and raises nothing, and
\* execute returns the traced collection as the trace left it.
C14_MergeSkip ==
    (/\ \E k \in Range(request.groupby) : k \notin KnownAttributes
     /\ Traced
     /\ pc \in {"done", "raised"}) =>
        /\ pc = "done"
        /\ err = ""
        /\ groups = <<>>
        /\ outputs.value.features = KeepMainstem(bulk, trim)

\* C15 as stated. No mutation of provider data: after the trace and after
\* the merge, the collection object p.query returned still lists the features
\* it was returned with, and every one of them still has the geometry and
\* the attributes it was returned with.
C15_NoMutation ==
    /\ dfeatures = [i \in 1..Len(bulk) |-> i]
    /\ objs = bulk

\* C16 as stated. Grouping precondition: whenever a trace was asked to be
\* merged on the path, for any assignment of sequence numbers to the
\* segments of the paths, the merge yields one group per path and never two
\* groups with the same path.
C16_OneGroupPerKey ==
    (request.groupby = <<"levelpathi">> /\ pc = "done") =>
        \A g \in 1..Len(outputs.value.features) :
            \A h \in 1..Len(outputs.value.features) :
                outputs.value.features[g].properties.levelpathi
                    = outputs.value.features[h].properties.levelpathi
                => g = h

----------------------------------------------------------------------------
(* Properties of the seed selection (_compare).                            *)

\* C17. Seed selection: for every non-empty candidate list, in any order,
\* the feature _compare returns is a candidate, no candidate has a smaller
\* sequence number, and every candidate before it has a larger one.
C17_SeedSelection ==
    pc = "compare_returned" =>
        \E i \in 1..Len(value) :
            /\ feature = value[i]
            /\ \A j \in 1..Len(value) :
                  value[j].properties.hydroseq >= feature.properties.hydroseq
            /\ \A j \in 1..(i - 1) :
                  value[j].properties.hydroseq > feature.properties.hydroseq

\* the least sequence number is shared by two candidates, neither of them
\* the first of the list
C17_Witness ==
    /\ pc = "compare_returned"
    /\ feature.id >= 2
    /\ \E j \in (feature.id + 1)..Len(value) :
          value[j].properties.hydroseq = feature.properties.hydroseq

----------------------------------------------------------------------------
(* Properties of the path list (_levelpaths).                              *)

\* the elements of s in order, each at its first occurrence only
RECURSIVE FirstOccurrences(_)
FirstOccurrences(s) ==
    IF s = <<>> THEN <<>>
    ELSE LET rest == FirstOccurrences(SubSeq(s, 1, Len(s) - 1))
         IN IF s[Len(s)] \in Range(rest) THEN rest
            ELSE Append(rest, s[Len(s)])

\* the pathIds the entries of a chain stand for, entries that stand for none
\* left out
RECURSIVE ParsedChain(_)
ParsedChain(toks) ==
    IF toks = <<>> THEN <<>>
    ELSE (IF Head(toks).ok /\ Head(toks).finite
          THEN <<Head(toks).tenths \div 10>> ELSE <<>>)
         \o ParsedChain(Tail(toks))

\* C18 as stated. Path list construction: for every seed _levelpaths returns
\* the seed's pathId followed by the parseable entries of the chain in their
\* order, unparseable entries being skipped without raising, each pathId at
\* its first occurrence only.
C18_PathList ==
    pc \in {"paths_returned", "paths_raised"} =>
        /\ pc = "paths_returned"
        /\ levelpaths =
              FirstOccurrences(<<feature.properties.levelpathi>>
                  \o ParsedChain(feature.properties.down_levelpaths))

----------------------------------------------------------------------------
(* Properties of the merged features (_group_by).                          *)

\* C19. Merged feature content: for every group [start, end) _group_by
\* found, the merged feature is a MultiLineString with one strand per member,
\* the members' coordinate lists in input order, and its attributes are
\* exactly the groupby names, with the values the members of the group have.
C19_MergedContent ==
    pc = "group_returned" =>
        /\ Len(outputs.value.features) = Len(groups)
        /\ \A g \in 1..Len(groups) :
              LET m == outputs.value.features[g]
                  start == groups[g].start
                  end == groups[g].end
              IN /\ m.geometry.type = "MultiLineString"
                 /\ Len(m.geometry.coordinates) = end - start
                 /\ \A k \in 1..(end - start) :
                       m.geometry.coordinates[k]
                           = gin[start + k].geometry.coordinates
                 /\ DOMAIN m.properties = Range(gkeys)
                 /\ \A name \in Range(gkeys) :
                       \A i \in (start + 1)..end :
                           m.properties[name] = gin[i].properties[name]

\* a merge on two names that found two groups, one of them with several
\* members
C19_Witness ==
    /\ pc = "group_returned"
    /\ Len(gkeys) = 2
    /\ Len(groups) = 2
    /\ \E g \in 1..Len(groups) : groups[g].end - groups[g].start >= 2

----------------------------------------------------------------------------
(* Properties of the cache decorator (lru_cache_specific_args).            *)

\* C20 as stated. Cache is refreshed by a skipped call: the result a skipped
\* call computed for key k is what the cache holds for k from then on, until
\* k is evicted or the cache is cleared, also when k was cached before with
\* an older value.
C20_SkipRefreshes ==
    \A k \in Keys :
        lastskip[k] # <<>> =>
            /\ Position(internal_lru_cache, k) > 0
            /\ internal_lru_cache[Position(internal_lru_cache, k)].result
                  = lastskip[k][1]

\* the value the lru_cache holds for key k, read only where k is cached
Cached(cache, k) == cache[Position(cache, k)].result

\* a step of the wrapper: neither cache_clear, which leaves the cache empty,
\* nor a change of what the function reads
WrapperStep == world' = world /\ internal_lru_cache' # <<>>

\* a wrapper call that is not skipped leaves its key cached with the value
\* it returned, and when the key was cached before it executes nothing and
\* returns the value that was cached; every wrapper call returns a result
\* computed for its own key
KeyOnlyCall ==
    WrapperStep =>
        LET args == lastcall'[1]
            k == CacheKeys(args)
        IN /\ result'[1].key = k
           /\ ~SkipCachingFn(args.request) =>
                 /\ Position(internal_lru_cache', k) > 0
                 /\ Cached(internal_lru_cache', k) = result'[1]
                 /\ Position(internal_lru_cache, k) > 0 =>
                       /\ executed' = <<>>
                       /\ result'[1] = Cached(internal_lru_cache, k)

\* whatever happens (a skipped call, a call with another key, a change of
\* what the function reads), the value cached for a key stays as it is
\* until the key is evicted or the cache cleared
KeyOnlyKept ==
    \A k \in Keys :
        (Position(internal_lru_cache, k) > 0
           /\ Position(internal_lru_cache', k) > 0) =>
            Cached(internal_lru_cache', k) = Cached(internal_lru_cache, k)

\* C21. Only the computed key participates in caching: of two wrapper calls
\* that are not skipped and have the same key, with no eviction of the key
\* and no cache_clear between them, the second executes the wrapped function
\* not at all and returns what the first returned, whatever the other
\* arguments of the two calls and whatever the function would compute now;
\* and no call returns a result computed for another key. Stated step by
\* step: the first call leaves its result cached under the key, every step
\* up to the second call keeps it, and the second call finds it.
C21_KeyOnly == [][KeyOnlyCall /\ KeyOnlyKept]_vars

\* a call that was not skipped returned, without executing the function,
\* the value computed for the first call with its key, a call that was not
\* skipped either, whose request was another and which ran before the state
\* the function reads changed
C21_Witness ==
    /\ lastcall # <<>>
    /\ ~SkipCachingFn(lastcall[1].request)
    /\ executed = <<>>
    /\ ~SkipCachingFn(key_args[CacheKeys(lastcall[1])][1].request)
    /\ result[1].tag = key_args[CacheKeys(lastcall[1])][1].request.tag
    /\ result[1].tag # lastcall[1].request.tag
    /\ result[1].world # world

\* C28 as stated. Cache misses run the function on the current call's
\* arguments: every execution of the wrapped function during a wrapper call
\* uses that call's own arguments, and a wrapper call executes the function
\* at most once.
C28_OwnArgsOnce ==
    lastcall # <<>> =>
        /\ \A i \in 1..Len(executed) : executed[i] = lastcall[1]
        /\ Len(executed) <= 1

----------------------------------------------------------------------------
(* ESRIServiceProvider (src/pygeoapi/provider/esri.py): __init__ and the   *)
(* 'results' branch of _load, against a Feature/Map Service that answers   *)
(* every request. The features a filter matches are numbered 1, 2, ... in  *)
(* the order the service returns them.                                     *)

\* largest number of features of the service
MaxTotal == 4
\* largest maxRecordCount (page size) of the service
MaxPage == 3
\* largest limit given to query
MaxLimit == 4
\* largest offset given to query
MaxStart == 2
\* largest resultOffset of a follow-up request the model follows
MaxOffset == 12
\* largest resultRecordCount of a follow-up request the model follows
MaxCount == 12

\* a service with total features, of which the filter of the query (where
\* clause, bbox) matches matched, answering at most page features a request
Services ==
    {sv \in [total : 0..MaxTotal, matched : 0..MaxTotal, page : 1..MaxPage] :
        sv.matched <= sv.total}

\* offset and limit as the API hands them to query
QueryArgs == [offset : 0..MaxStart, limit : 1..MaxLimit]

\* the features of the service's answer to a request with parameters p
Features(sv, p) ==
    LET n == Max2(0, Min2(Min2(p.resultRecordCount, sv.page),
                          sv.matched - p.resultOffset))
    IN [i \in 1..n |-> p.resultOffset + i]

\* the count of the service's answer to the 'hits' request of __init__,
\* which carries no filter (where 1=1)
Hits(sv) == sv.total

InitEsri ==
    /\ service \in Services
    /\ numFeatures = 0
    /\ qargs = <<>>
    /\ params = <<>>
    /\ v = <<>>
    /\ step = 0
    /\ page = <<>>
    /\ fc = <<>>
    /\ epc = "new"
    /\ RiverIdle
    /\ CacheIdle
    /\ OntologyIdle

\* __init__, lines 55-62
EsriConstruct ==
    /\ epc = "new"
    /\ numFeatures' = Hits(service)
    /\ epc' = "ready"
    /\ UNCHANGED <<service, qargs, params, v, step, page, fc, rvars, cvars,
                   gvars>>

\* query and _load up to the loop, lines 133-136, 170-243
EsriQuery ==
    /\ epc = "ready"
    /\ \E a \in QueryArgs :
          /\ qargs' = a
          /\ params' = [resultOffset |-> a.offset,
                        resultRecordCount |-> a.limit]
    /\ v' = Features(service, params')
    /\ step' = Len(v')
    /\ epc' = "loop"
    /\ UNCHANGED <<service, numFeatures, page, fc, rvars, cvars, gvars>>

\* hits_ = min(limit, self.numFeatures), line 244
HitsExpected == Min2(qargs.limit, numFeatures)

\* while len(v) < hits_, line 247
LoopGuard == Len(v) < HitsExpected

\* lines 249-252: the follow-up request. The code has no limit on the two
\* parameters; the model follows the loop while they stay within MaxOffset
\* and MaxCount.
EsriFetch ==
    /\ epc = "loop"
    /\ LoopGuard
    /\ params.resultOffset + step <= MaxOffset
    /\ params.resultRecordCount + step <= MaxCount
    /\ params' = [resultOffset |-> params.resultOffset + step,
                  resultRecordCount |-> params.resultRecordCount + step]
    /\ page' = Features(service, params')
    /\ epc' = "fetched"
    /\ UNCHANGED <<service, numFeatures, qargs, v, step, fc, rvars, cvars,
                   gvars>>

\* line 253: v.extend(response.get('features'))
EsriExtend ==
    /\ epc = "fetched"
    /\ v' = v \o page
    /\ epc' = "loop"
    /\ UNCHANGED <<service, numFeatures, qargs, params, step, page, fc, rvars,
                   cvars, gvars>>

\* lines 255-261
EsriReturn ==
    /\ epc = "loop"
    /\ ~LoopGuard
    /\ fc' = [type |-> "FeatureCollection", features |-> v,
              numberReturned |-> Len(v)]
    /\ epc' = "done"
    /\ UNCHANGED <<service, numFeatures, qargs, params, v, step, page, rvars,
                   cvars, gvars>>

NextEsri ==
    \/ EsriConstruct
    \/ EsriQuery
    \/ EsriFetch
    \/ EsriExtend
    \/ EsriReturn

\* the service answers each request, and the provider runs on
SpecEsri == InitEsri /\ [][NextEsri]_vars /\ WF_vars(NextEsri)

----------------------------------------------------------------------------
(* Properties of the ESRI provider.                                        *)

\* C22 as stated. ESRI query respects limit: a 'results' query returns a
\* FeatureCollection with at most limit features, numberReturned equal to
\* the number of features returned, and no feature fetched twice.
C22_RespectsLimit ==
    epc = "done" =>
        /\ fc.type = "FeatureCollection"
        /\ Len(fc.features) <= qargs.limit
        /\ fc.numberReturned = Len(fc.features)
        /\ \A i, j \in 1..Len(fc.features) :
              fc.features[i] = fc.features[j] => i = j

\* the loop has to go on and its next request is past the model's bounds
PastBounds ==
    /\ epc = "loop"
    /\ LoopGuard
    /\ \/ params.resultOffset + step > MaxOffset
       \/ params.resultRecordCount + step > MaxCount

\* C27 as stated. ESRI paging terminates: every 'results' query eventually
\* returns, also when the filter matches fewer features than
\* min(limit, numFeatures) and when a follow-up page comes back empty.
\* A loop the model follows up to its bounds counts as not refuted, so a
\* violation is a loop that repeats the same request for ever.
C27_PagingTerminates == (epc = "loop") ~> (epc = "done" \/ PastBounds)

----------------------------------------------------------------------------
(* get_mapping (src/pygeoapi/ontology/__init__.py) over the graph that     *)
(* get_graph returns. A string is the sequence of its pieces, so that      *)
(* prefixes, '+' and ' ' can be told apart: 'Conservation+Storage' is      *)
(* <<"Conservation", "+", "Storage">>.                                     *)

\* largest number of parameter concepts in the graph
MaxParams == 2
\* longest parameter_names list
MaxNames == 2

\* PREFIX variablename: (line 49)
VariableNs == "http://vocabulary.odm2.org/variablename/"
\* PREFIX : (line 46)
UsbrNs == "http://lincolninst.edu/cgs/vocabularies/usbr#"
\* a namespace outside the ODM2 vocabulary
OtherNs == "http://example.org/"

\* the pieces that end with '#' or '/'
Separators == {VariableNs, UsbrNs, OtherNs, "/"}

\* str.replace(old, new)
Replace(s, old, new) ==
    [i \in 1..Len(s) |-> IF s[i] = old THEN new ELSE s[i]]

\* LCASE(STR(?label)) on the labels of the model
Lcase(label) ==
    CASE label = "Rise" -> "rise"
      [] label = "USACE" -> "usace"
      [] OTHER -> label

\* BIND(CONCAT(LCASE(STR(?label)), "-edr") AS ?collection_id), line 56
CollectionId(label) == <<Lcase(label), "-edr">>

\* BIND(REPLACE(STR(?parameter), "^.*[#/]", "") AS ?parameter_name), line 57:
\* what follows the last '#' or '/'
ParameterName(iri) ==
    LET seps == {i \in 1..Len(iri) : iri[i] \in Separators}
        last == IF seps = {} THEN 0
                ELSE CHOOSE i \in seps : \A j \in seps : j <= i
    IN SubSeq(iri, last + 1, Len(iri))

\* ?odmvariable skos:prefLabel ?odmvarname, line 103
PrefLabel(variable) ==
    CASE variable = <<VariableNs, "reservoirStorage">> -> "Reservoir storage"
      [] variable = <<VariableNs, "streamflow">> -> "Streamflow"
      [] OTHER -> "Storage"

\* the ODM2 variables and other concepts a parameter is an exactMatch of
MatchTargets ==
    {<<VariableNs, "reservoirStorage">>, <<VariableNs, "streamflow">>,
     <<OtherNs, "storage">>}

\* the parameter concepts a graph may hold: each is narrower than a
\* collection that is narrower than :c_1805cd26, is a skos:Concept in a
\* scheme, and is an exactMatch of one target (lines 97-103)
ParameterConcepts ==
    [label : {"Rise", "USACE"},
     parameter : {<<UsbrNs, "47">>,
                  <<UsbrNs, "Conservation", "+", "Storage">>},
     exactMatch : MatchTargets]

Graphs == {g \in SUBSET ParameterConcepts : Cardinality(g) <= MaxParams}

\* the names get_mapping is called with
RequestNames ==
    {<<"reservoirStorage">>, <<VariableNs, "reservoirStorage">>,
     <<"streamflow">>, <<"notReservoirStorage">>,
     <<"reservoir", " ", "Storage">>, <<"*">>}

NameLists ==
    {<<>>} \cup {<<n>> : n \in RequestNames}
      \cup {<<"reservoirStorage">>} \X {<<"streamflow">>}

\* p.startswith('http'), line 87
StartsWithHttp(p) == p # <<>> /\ p[1] \in {VariableNs, UsbrNs, OtherNs}

\* the IRI a requested name stands for, lines 87-89
Term(p) ==
    IF StartsWithHttp(p) THEN p
    ELSE <<VariableNs>> \o Replace(p, " ", "+")

\* whether the query text parses: the local part of a prefixed name admits
\* no '+' (lines 110-114)
QueryParses(names) ==
    names = <<"*">> \/
        \A i \in 1..Len(names) :
            StartsWithHttp(names[i]) \/ "+" \notin Range(Term(names[i]))

\* the VALUES clause, lines 86-90: TRUE when odmvariable is admitted
InValues(names, odmvariable) ==
    names = <<"*">> \/ \E i \in 1..Len(names) : Term(names[i]) = odmvariable

\* the solutions of the query, lines 92-108
Rows(g, names) ==
    {[collection_id |-> CollectionId(c.label),
      parameter_name |-> ParameterName(c.parameter),
      odmvariable |-> c.exactMatch,
      odmvarname |-> PrefLabel(c.exactMatch)] :
        c \in {x \in g : /\ InValues(names, x.exactMatch)
                         /\ x.exactMatch[1] = VariableNs}}

\* resp[cid][pname] = {'key': ..., 'title': ...}, lines 117-130
Put(r, cid, pname, c) ==
    {x \in r : ~(x.cid = cid /\ x.pname = pname)}
      \cup {[cid |-> cid, pname |-> pname,
             key |-> c.odmvariable, title |-> c.odmvarname]}

\* the body of the loop, lines 117-136
PutRow(r, c) ==
    LET own == Put(r, c.collection_id, c.parameter_name, c)
    IN IF "+" \in Range(c.parameter_name)
       THEN Put(own, c.collection_id,
                Replace(c.parameter_name, "+", " "), c)
       ELSE own

InitOntology ==
    /\ graph \in Graphs
    /\ parameter_names \in NameLists
    /\ response = {}
    /\ resp = {}
    /\ opc = "call"
    /\ RiverIdle
    /\ CacheIdle
    /\ EsriIdle

\* lines 84-114
GetMappingQuery ==
    /\ opc = "call"
    /\ resp' = {}
    /\ IF QueryParses(parameter_names)
       THEN /\ response' = Rows(graph, parameter_names)
            /\ opc' = "rows"
       ELSE /\ response' = {}
            /\ opc' = "done"
    /\ UNCHANGED <<graph, parameter_names, rvars, cvars, evars>>

\* lines 116-136, one row of the response, in whatever order the rows come
GetMappingRow ==
    /\ opc = "rows"
    /\ \E c \in response :
          /\ resp' = PutRow(resp, c)
          /\ response' = response \ {c}
    /\ UNCHANGED <<graph, parameter_names, opc, rvars, cvars, evars>>

\* line 138
GetMappingReturn ==
    /\ opc = "rows"
    /\ response = {}
    /\ opc' = "done"
    /\ UNCHANGED <<graph, parameter_names, response, resp, rvars, cvars,
                   evars>>

NextOntology ==
    \/ GetMappingQuery
    \/ GetMappingRow
    \/ GetMappingReturn

SpecOntology == InitOntology /\ [][NextOntology]_vars

----------------------------------------------------------------------------
(* Properties of the ontology mapping.                                     *)

\* the parameter concepts of the graph whose exactMatch variable is requested
Requested ==
    {c \in graph : /\ InValues(parameter_names, c.exactMatch)
                   /\ c.exactMatch[1] = VariableNs}

\* C23 as stated. Ontology mapping has one entry per matching source
\* parameter: each collection of get_mapping's result holds exactly one entry
\* for each of its source parameters whose exactMatch variable is requested,
\* keyed by the parameter's own name, with 'key' the variable IRI and 'title'
\* its label, and holds no other entry; a request matching nothing returns
\* {}.
C23_OneEntryPerParameter ==
    opc = "done" =>
        /\ \A c \in Requested :
              \E x \in resp : /\ x.cid = CollectionId(c.label)
                              /\ x.pname = ParameterName(c.parameter)
        /\ \A x \in resp :
              \E c \in Requested :
                  /\ x.cid = CollectionId(c.label)
                  /\ x.pname = ParameterName(c.parameter)
                  /\ x.key = c.exactMatch
                  /\ x.title = PrefLabel(c.exactMatch)

----------------------------------------------------------------------------
(* Further properties of _group_by, _from_fid and execute.                 *)

\* the group-key values of the feature at index i (from 0) of the list
\* given to _group_by
KeyTuple(i) == [k \in 1..Len(gkeys) |-> gin[i + 1].properties[gkeys[k]]]

\* C24 as stated. Run detection: for every non-empty input the first element
\* starts group 0, also when all of its group-key values are null; a new
\* group starts at index i > 0 exactly when the tuple of group-key values at
\* i differs from the tuple at i - 1; so two runs with the same tuple that
\* are not adjacent give two groups.
C24_RunDetection ==
    (GroupEnded /\ gin # <<>>) =>
        /\ pc = "group_returned"
        /\ {groups[g].start : g \in 1..Len(groups)}
              = {0} \cup {i \in 1..(Len(gin) - 1) :
                             KeyTuple(i) # KeyTuple(i - 1)}

\* C25 as stated. No duplicates in the traced path: each segment of the bulk
\* result occurs at most once in what _from_fid returns, also when it
\* satisfies more than one boundary of T.
C25_NoDuplicates ==
    AtTraceOut =>
        \A i, j \in 1..Len(TraceOut) :
            TraceOut[i].id = TraceOut[j].id => i = j

\* C26 as stated. Trace is total over bulk results: whenever the provider's
\* get and query succeed, _from_fid returns a collection, also when some
\* path of L has no member in the bulk result.
C26_TraceTotal == TraceEnded => Traced

\* what execute returns for the request req with id = s instead of its
\* place, one outcome for every order the provider may answer in
IdPathOutcome(seed, req, d) ==
    LET lpaths == Levelpaths(seed)
        mins == Mins(lpaths, d)
        out == KeepMainstem(d, MakeTrim(seed, lpaths, mins))
        res == GroupBy(out, req.groupby)
    IN IF \E level \in Range(lpaths) : mins[level] = <<>>
       THEN [err |-> "KeyError", features |-> <<>>]
       ELSE IF req.groupby = <<>>
       THEN [err |-> "", features |-> out]
       ELSE [err |-> res.err, features |-> res.features]

IdPathOutcomes(s, req) ==
    LET seed == CHOOSE f \in table : f.id = s
        dat == Forced(req)
    IN IF LevelpathsRaises(seed) \/ MakeOrderRaises(dat)
       THEN {}
       ELSE {IdPathOutcome(seed, dat, d) :
                d \in QueryProperties(Levelpaths(seed), MakeOrder(dat))}

\* C29 as stated. Location form does not change the traced result: when a
\* request by bbox, latlng or lat and lng resolves to seed s, execute returns
\* the features, in the order, that it returns for the same request with
\* id = s; a requested 'upstream' or 'unset' order is applied as on the id
\* path.
C29_SameAsById ==
    (pc = "done" /\ ViaHttp /\ fid # 0 /\ outputs.value # NoValue) =>
        \E o \in IdPathOutcomes(fid, request) :
            /\ o.err = ""
            /\ outputs.value = FeatureCollection(o.features)

====
